---- MODULE Spec2Model ----
(***************************************************************************)
(* The tenant operator of c2pig/k8s-hybrid-cloud: TenantReconciler.Reconcile *)
(* run by the controller that SetupWithManager builds (a work queue fed by   *)
(* Namespace events), against the cluster's object store, together with the  *)
(* setup and teardown scripts that create and delete the tenant namespaces.  *)
(***************************************************************************)
EXTENDS Naturals, Sequences, FiniteSets, TLC

\* ------------------------------------------------------------------ bounds

\* Create calls that may fail with an error other than AlreadyExists.
MaxFaults == 1
\* Changes and triggers from outside a pass: namespace applies by the setup
\* script, namespace deletions by the teardown script, Tenant applies, and
\* resyncs of the Namespace watch.
MaxExternal == 1

\* ---------------------------------------------------------------- constants

\* The controller's default rate limiter: the delay of the first re-add and the
\* highest delay, in milliseconds.
BaseDelay == 5

MaxDelay == 1000000

\* The controller is built with no options: one reconcile worker.
MaxConcurrentReconciles == 1

\* Tenant namespaces of the setup and teardown scripts (the first of the eight).
TenantNames == {"candidate"}

\* Namespaces the cluster holds before any tenant is set up.
SystemNamespaces == {"default"}

\* The keys the controller can be handed: it watches Namespaces, so every
\* namespace name is a key.
Keys == TenantNames \cup SystemNamespaces

\* The Tenant objects applied to the cluster (the manifest of the README).
TenantObjects == {"candidate"}

Workers == 1 .. MaxConcurrentReconciles

Kinds == <<"Namespace", "ResourceQuota", "NetworkPolicy", "RoleBinding">>

KindSet == {Kinds[i] : i \in 1 .. Len(Kinds)}

\* Errors of a create call other than AlreadyExists: a call timeout (transient)
\* and a refusal by the API server (not retryable).
FaultCauses == {"Timeout", "Forbidden"}

\* ------------------------------------------------------------ desired objects

\* The quantity strings Reconcile parses.
QuantityLiterals == {"10", "20", "100", "20Gi", "40Gi"}

\* resource.MustParse on the literals of the ResourceQuota: value and suffix.
MustParse(s) ==
    CASE s = "10"   -> [value |-> 10, suffix |-> ""]
      [] s = "20"   -> [value |-> 20, suffix |-> ""]
      [] s = "100"  -> [value |-> 100, suffix |-> ""]
      [] s = "20Gi" -> [value |-> 20, suffix |-> "Gi"]
      [] s = "40Gi" -> [value |-> 40, suffix |-> "Gi"]

\* Labels the operator puts on the Namespace.
OperatorLabels ==
    {"platform.xyz.com/tenant", "istio-injection",
     "pod-security.kubernetes.io/enforce"}

\* Labels of the Namespace manifest the setup script applies.
ScriptLabels ==
    OperatorLabels \cup {"pod-security.kubernetes.io/warn"}

\* The Namespace of the setup script's manifest.
ScriptNamespaceObject(tenantName) ==
    [kind |-> "Namespace", namespace |-> "", name |-> tenantName,
     fields |-> [labels |-> ScriptLabels]]

\* A namespace of the cluster that no tenant tooling made.
SystemNamespaceObject(name) ==
    [kind |-> "Namespace", namespace |-> "", name |-> name,
     fields |-> [labels |-> {"kubernetes.io/metadata.name"}]]

\* Faulty variant: the ResourceQuota built without its Namespace field set to the
\* tenant, so that it lands in the default namespace.
ResourceQuotaObjectInDefault(tenantName) ==
    [kind |-> "ResourceQuota", namespace |-> "default", name |-> "tenant-quota",
     fields |-> [requestsCPU    |-> MustParse("10"),
                 requestsMemory |-> MustParse("20Gi"),
                 limitsCPU      |-> MustParse("20"),
                 limitsMemory   |-> MustParse("40Gi"),
                 pods           |-> MustParse("100")]]

NamespaceObject(tenantName) ==
    [kind |-> "Namespace", namespace |-> "", name |-> tenantName,
     fields |-> [labels |-> OperatorLabels]]

ResourceQuotaObject(tenantName) ==
    [kind |-> "ResourceQuota", namespace |-> tenantName, name |-> "tenant-quota",
     fields |-> [requestsCPU    |-> MustParse("10"),
                 requestsMemory |-> MustParse("20Gi"),
                 limitsCPU      |-> MustParse("20"),
                 limitsMemory   |-> MustParse("40Gi"),
                 pods           |-> MustParse("100")]]

\* Faulty variant: the NetworkPolicy built without its Namespace field set to
\* the tenant, so that it lands in the default namespace.
NetworkPolicyObjectInDefault(tenantName) ==
    [kind |-> "NetworkPolicy", namespace |-> "default",
     name |-> "default-deny-ingress",
     fields |-> [podSelector |-> {}, policyTypes |-> {"Ingress"}]]

\* Faulty variant: the RoleBinding built without its Namespace field set to the
\* tenant, so that the bindings of all tenants land in the default namespace.
RoleBindingObjectInDefault(tenantName) ==
    [kind |-> "RoleBinding", namespace |-> "default",
     name |-> tenantName \o "-developers",
     fields |-> [subjectKind |-> "Group", subjectName |-> tenantName \o "-team",
                 roleRefKind |-> "ClusterRole", roleRefName |-> "edit"]]

NetworkPolicyObject(tenantName) ==
    [kind |-> "NetworkPolicy", namespace |-> tenantName,
     name |-> "default-deny-ingress",
     fields |-> [podSelector |-> {}, policyTypes |-> {"Ingress"}]]

RoleBindingName(tenantName) == tenantName \o "-developers"

RoleBindingObject(tenantName) ==
    [kind |-> "RoleBinding", namespace |-> tenantName,
     name |-> RoleBindingName(tenantName),
     fields |-> [subjectKind |-> "Group", subjectName |-> tenantName \o "-team",
                 roleRefKind |-> "ClusterRole", roleRefName |-> "edit"]]

\* The object Reconcile builds for each kind, from the request's name alone.
Desired(kind, tenantName) ==
    CASE kind = "Namespace"     -> NamespaceObject(tenantName)
      [] kind = "ResourceQuota" -> ResourceQuotaObject(tenantName)
      [] kind = "NetworkPolicy" -> NetworkPolicyObject(tenantName)
      [] kind = "RoleBinding"   -> RoleBindingObject(tenantName)

\* ------------------------------------------------------------------- state

VARIABLES
    store,        \* the cluster's objects: records [kind, namespace, name, fields]
    wq,           \* the controller's work queue: [queue, dirty, processing]
    waiting,      \* keys re-added with a rate-limited delay, not yet due
    events,       \* keys with a Namespace watch event not yet handled
    pass,         \* per worker: the Reconcile call in progress
    lastPass,     \* per key: the create outcomes and the error of the last Reconcile call that returned
    tenantSpec,   \* per Tenant object: spec.quota
    tenantGen,    \* per Tenant object: metadata.generation
    tenantStatus, \* per Tenant object: status
    faults,       \* create calls that have failed so far
    external,     \* changes and triggers from outside a pass so far
    deleted,      \* keys whose namespace the teardown script has deleted
    limiter       \* per key, the rate limiter's count of failures and the delay it last gave

vars ==
    <<store, wq, waiting, events, pass, lastPass, tenantSpec, tenantGen,
      tenantStatus, faults, external, deleted, limiter>>

NoResults == [kind \in KindSet |-> "none"]

IdlePass == [key |-> "", pc |-> "idle", results |-> NoResults]

\* spec.quota of a Tenant manifest, cpu and memory as quantity strings ("" when
\* absent), pods as an int (0 when absent): no quota, the quota of the README's
\* manifest, and one whose cpu is no quantity.
TenantQuotas ==
    {[cpu |-> "", memory |-> "", pods |-> 0],
     [cpu |-> "20", memory |-> "40Gi", pods |-> 200],
     [cpu |-> "not-a-number", memory |-> "", pods |-> 0]}

\* The zero value of TenantStatus.
ZeroStatus ==
    [phase |-> "", namespaceCreated |-> FALSE, quotaApplied |-> FALSE,
     networkPolicyApplied |-> FALSE, rbacApplied |-> FALSE]

\* The operator starts on a cluster that holds the system namespaces and the
\* tenant namespaces the setup script has made so far; the watch's first list
\* reports each of them.
Init ==
    /\ \E made \in SUBSET TenantNames :
         store = {SystemNamespaceObject(n) : n \in SystemNamespaces}
                   \cup {ScriptNamespaceObject(t) : t \in made}
    /\ events = {o.name : o \in store}
    /\ wq = [queue |-> <<>>, dirty |-> {}, processing |-> {}]
    /\ waiting = {}
    /\ pass = [w \in Workers |-> IdlePass]
    /\ lastPass = [k \in Keys |-> [results |-> NoResults, err |-> "none"]]
    /\ tenantSpec \in [TenantObjects -> TenantQuotas]
    /\ tenantGen = [t \in TenantObjects |-> 1]
    /\ tenantStatus = [t \in TenantObjects |-> ZeroStatus]
    /\ faults = 0
    /\ external = 0
    /\ deleted = {}
    /\ limiter = [k \in Keys |-> [failures |-> 0, delay |-> 0]]

\* ------------------------------------------------------------- the work queue

\* Faulty variant: Add that appends whatever the item's marks are.
QAddNoDedup(q, item) ==
    [q EXCEPT !.dirty = @ \cup {item}, !.queue = Append(@, item)]

\* Add: an item already marked dirty is dropped; one being processed is only
\* marked dirty; any other is marked and appended.
QAdd(q, item) ==
    IF item \in q.dirty THEN q
    ELSE IF item \in q.processing THEN [q EXCEPT !.dirty = @ \cup {item}]
    ELSE [q EXCEPT !.dirty = @ \cup {item}, !.queue = Append(@, item)]

\* Get: the head moves from the queue to the processing set, no longer dirty.
QGet(q) ==
    [q EXCEPT !.queue = Tail(@),
              !.processing = @ \cup {Head(q.queue)},
              !.dirty = @ \ {Head(q.queue)}]

\* Done: the item leaves the processing set and, if it was marked dirty while
\* being processed, is appended again.
QDone(q, item) ==
    IF item \in q.dirty
    THEN [q EXCEPT !.processing = @ \ {item}, !.queue = Append(@, item)]
    ELSE [q EXCEPT !.processing = @ \ {item}]

\* ------------------------------------------------------------ the rate limiter

RECURSIVE Pow2(_)
Pow2(n) == IF n = 0 THEN 1 ELSE 2 * Pow2(n - 1)

\* The delay for an item that has failed n times before: the base delay doubled
\* n times, at most the highest delay.
Backoff(n) ==
    IF BaseDelay * Pow2(n) > MaxDelay THEN MaxDelay ELSE BaseDelay * Pow2(n)

\* AddRateLimited: the item gets the delay of its failure count, which grows by one.
LimiterWhen(l) == [failures |-> l.failures + 1, delay |-> Backoff(l.failures)]

\* Forget: the item's failure count is dropped.
LimiterForget(l) == [failures |-> 0, delay |-> 0]

\* The controller re-adds the request rate-limited when Reconcile returned an
\* error, and forgets it when Reconcile returned nil and an empty Result.
RequeueAfterReturn(err) == err # "none"

\* ------------------------------------------------------------ the object store

Exists(st, obj) ==
    \E o \in st : o.kind = obj.kind /\ o.namespace = obj.namespace /\ o.name = obj.name

NamespaceExists(st, name) ==
    \E o \in st : o.kind = "Namespace" /\ o.name = name

\* The outcome of the store's create for obj when nothing else goes wrong.
CreateOutcome(st, obj) ==
    IF Exists(st, obj) THEN "AlreadyExists"
    ELSE IF obj.namespace # "" /\ ~NamespaceExists(st, obj.namespace) THEN "NotFound"
    ELSE "Created"

\* Faulty variant: a create that overwrites the object it finds.
StoreAfterCreateOrUpdate(st, obj, outcome) ==
    IF outcome \in {"Created", "AlreadyExists"}
    THEN {o \in st : ~(o.kind = obj.kind /\ o.namespace = obj.namespace
                                          /\ o.name = obj.name)} \cup {obj}
    ELSE st

\* The store after a create call with that outcome: only a create that
\* succeeded adds the object; an existing object is never written.
StoreAfterCreate(st, obj, outcome) ==
    IF outcome = "Created" THEN st \cup {obj} ELSE st

\* The errors a create call may return instead: none once MaxFaults have occurred.
FaultChoices(n) == IF n < MaxFaults THEN {"none"} \cup FaultCauses ELSE {"none"}

\* ---------------------------------------------------------------- Reconcile

\* Faulty variant: the error of a create call is logged and Reconcile goes on.
ProceedsIgnoringErrors(outcome) == TRUE

\* if err != nil { if !errors.IsAlreadyExists(err) { return ctrl.Result{}, err } }
\* Reconcile goes on after a create that returned nil or AlreadyExists.
Proceeds(outcome) == outcome \in {"Created", "AlreadyExists"}

\* Faulty variant: the ResourceQuota create is made again after itself.
NextPcRepeatsQuota(kind) ==
    CASE kind = "Namespace"     -> "ResourceQuota"
      [] kind = "ResourceQuota" -> "ResourceQuota"
      [] kind = "NetworkPolicy" -> "RoleBinding"
      [] kind = "RoleBinding"   -> "return"

\* Faulty variant: the NetworkPolicy is created before the ResourceQuota.
NextPcPolicyFirst(kind) ==
    CASE kind = "Namespace"     -> "NetworkPolicy"
      [] kind = "NetworkPolicy" -> "ResourceQuota"
      [] kind = "ResourceQuota" -> "RoleBinding"
      [] kind = "RoleBinding"   -> "return"

\* Faulty variant: the Namespace is written on every pass, found or not, and
\* the watch reports each write.
NamespaceEventAfterAnyPass(kind, outcome) ==
    kind = "Namespace" /\ outcome \in {"Created", "AlreadyExists"}

\* The controller watches Namespaces: of Reconcile's creates, only a Namespace
\* create that made the object produces an event for the key.
NamespaceEventAfter(kind, outcome) ==
    kind = "Namespace" /\ outcome = "Created"

\* The create that follows each create in Reconcile, or its return.
NextPc(kind) ==
    CASE kind = "Namespace"     -> "ResourceQuota"
      [] kind = "ResourceQuota" -> "NetworkPolicy"
      [] kind = "NetworkPolicy" -> "RoleBinding"
      [] kind = "RoleBinding"   -> "return"

\* A worker takes the next key off the queue and calls Reconcile for it.
Get(w) ==
    /\ pass[w].pc = "idle"
    /\ wq.queue # <<>>
    /\ pass' = [pass EXCEPT ![w] = [key |-> Head(wq.queue), pc |-> "Namespace",
                                    results |-> NoResults]]
    /\ wq' = QGet(wq)
    /\ UNCHANGED <<store, waiting, events, lastPass, tenantSpec, tenantGen,
                   tenantStatus, faults, external, deleted, limiter>>

\* One r.Create call of Reconcile and what follows it up to the next call or
\* the return: on return with an error the controller re-adds the key
\* rate-limited, and in both cases marks it done.
CreateStep(w, kind) ==
    /\ pass[w].pc = kind
    /\ \E f \in FaultChoices(faults) :
         LET key      == pass[w].key
             obj      == Desired(kind, key)
             outcome  == IF f # "none" THEN f ELSE CreateOutcome(store, obj)
             results  == [pass[w].results EXCEPT ![kind] = outcome]
             returns  == ~Proceeds(outcome) \/ NextPc(kind) = "return"
         IN  /\ faults' = IF f # "none" THEN faults + 1 ELSE faults
             /\ store' = StoreAfterCreate(store, obj, outcome)
             /\ events' = IF NamespaceEventAfter(kind, outcome)
                          THEN events \cup {key} ELSE events
             /\ IF returns
                THEN LET err == IF Proceeds(outcome) THEN "none" ELSE outcome
                     IN  /\ pass' = [pass EXCEPT ![w] = IdlePass]
                         /\ lastPass' = [lastPass EXCEPT ![key] =
                               [results |-> results, err |-> err]]
                         /\ waiting' = IF RequeueAfterReturn(err)
                                       THEN waiting \cup {key} ELSE waiting
                         /\ limiter' = [limiter EXCEPT ![key] =
                               IF RequeueAfterReturn(err) THEN LimiterWhen(@)
                               ELSE LimiterForget(@)]
                         /\ wq' = QDone(wq, key)
                ELSE /\ pass' = [pass EXCEPT ![w] = [key |-> key, pc |-> NextPc(kind),
                                                     results |-> results]]
                     /\ UNCHANGED <<lastPass, waiting, wq, limiter>>
    /\ UNCHANGED <<tenantSpec, tenantGen, tenantStatus, external, deleted>>

CreateNamespace(w) == CreateStep(w, "Namespace")

CreateResourceQuota(w) == CreateStep(w, "ResourceQuota")

CreateNetworkPolicy(w) == CreateStep(w, "NetworkPolicy")

CreateRoleBinding(w) == CreateStep(w, "RoleBinding")

\* ------------------------------------------------------------ the controller

\* A Namespace event reaches the controller: the namespace's name is enqueued.
Notify(k) ==
    /\ k \in events
    /\ events' = events \ {k}
    /\ wq' = QAdd(wq, k)
    /\ UNCHANGED <<store, waiting, pass, lastPass, tenantSpec, tenantGen,
                   tenantStatus, faults, external, deleted, limiter>>

\* The Namespace watch resyncs: an update event for an existing namespace.
Resync(k) ==
    /\ external < MaxExternal
    /\ NamespaceExists(store, k)
    /\ external' = external + 1
    /\ events' = events \cup {k}
    /\ UNCHANGED <<store, wq, waiting, pass, lastPass, tenantSpec, tenantGen,
                   tenantStatus, faults, deleted, limiter>>

\* The delay of a rate-limited re-add has passed: the key is added.
DelayElapsed(k) ==
    /\ k \in waiting
    /\ waiting' = waiting \ {k}
    /\ wq' = QAdd(wq, k)
    /\ UNCHANGED <<store, events, pass, lastPass, tenantSpec, tenantGen,
                   tenantStatus, faults, external, deleted, limiter>>

\* ------------------------------------------------------------ the environment

\* create_tenants: kubectl apply of the Namespace manifest (created, or its
\* labels brought to the manifest's); the watch reports the change.
ApplyNamespace(t) ==
    /\ external < MaxExternal
    /\ external' = external + 1
    /\ LET obj == ScriptNamespaceObject(t)
       IN  /\ store' = {o \in store : ~(o.kind = "Namespace" /\ o.name = t)} \cup {obj}
           /\ events' = IF obj \in store THEN events ELSE events \cup {t}
    /\ UNCHANGED <<wq, waiting, pass, lastPass, tenantSpec, tenantGen,
                   tenantStatus, faults, deleted, limiter>>

\* teardown: kubectl delete namespace; the store removes the namespace with
\* every object in it, and the watch reports the deletion.
DeleteNamespace(t) ==
    /\ external < MaxExternal
    /\ NamespaceExists(store, t)
    /\ external' = external + 1
    /\ deleted' = deleted \cup {t}
    /\ store' = {o \in store : ~(o.kind = "Namespace" /\ o.name = t) /\ o.namespace # t}
    /\ events' = events \cup {t}
    /\ UNCHANGED <<wq, waiting, pass, lastPass, tenantSpec, tenantGen,
                   tenantStatus, faults, limiter>>

\* kubectl apply of a changed Tenant manifest: a new spec, the next generation.
\* The controller watches Namespaces only, so nothing is enqueued.
ApplyTenant(t, q) ==
    /\ external < MaxExternal
    /\ q # tenantSpec[t]
    /\ external' = external + 1
    /\ tenantSpec' = [tenantSpec EXCEPT ![t] = q]
    /\ tenantGen' = [tenantGen EXCEPT ![t] = @ + 1]
    /\ UNCHANGED <<store, wq, waiting, events, pass, lastPass, tenantStatus,
                   faults, deleted, limiter>>

Next ==
    \/ \E w \in Workers : Get(w)
    \/ \E w \in Workers : CreateNamespace(w)
    \/ \E w \in Workers : CreateResourceQuota(w)
    \/ \E w \in Workers : CreateNetworkPolicy(w)
    \/ \E w \in Workers : CreateRoleBinding(w)
    \/ \E k \in Keys : Notify(k)
    \/ \E k \in Keys : DelayElapsed(k)
    \/ \E k \in Keys : Resync(k)
    \/ \E t \in TenantNames : ApplyNamespace(t)
    \/ \E t \in TenantNames : DeleteNamespace(t)
    \/ \E t \in TenantObjects : \E q \in TenantQuotas : ApplyTenant(t, q)

Spec == Init /\ [][Next]_vars

\* What the controller does by itself: its worker runs, the watch delivers its
\* events and the delays of the rate-limited re-adds pass.
ControllerNext ==
    \/ \E w \in Workers :
         \/ Get(w)
         \/ CreateNamespace(w)
         \/ CreateResourceQuota(w)
         \/ CreateNetworkPolicy(w)
         \/ CreateRoleBinding(w)
    \/ \E k \in Keys : Notify(k) \/ DelayElapsed(k)

\* The controller keeps running: an enabled step of it is eventually taken.
LiveSpec == Spec /\ WF_vars(ControllerNext)

\* ------------------------------------------------------------------ claims

\* A create outcome that is not an error to Reconcile's caller.
Succeeded(outcome) == outcome \in {"Created", "AlreadyExists"}

\* A create call that was issued and failed with an error other than AlreadyExists.
Failed(outcome) == outcome \notin {"none", "Created", "AlreadyExists"}

\* A Reconcile call for k has returned at least once.
PassReturned(k) == lastPass[k].results["Namespace"] # "none"

\* The last Reconcile call for k that returned, returned nil.
LastPassSucceeded(k) == PassReturned(k) /\ lastPass[k].err = "none"

\* Worker w is inside a Reconcile call for k.
Running(w, k) == pass[w].pc # "idle" /\ pass[w].key = k

\* In this step worker w's Reconcile call for k returns.
Returns(w, k) == Running(w, k) /\ pass'[w].pc = "idle"

\* The objects of the store that belong to key k: its Namespace and what is in it.
ObjectsOf(st, k) ==
    {o \in st : (o.kind = "Namespace" /\ o.name = k) \/ o.namespace = k}

\* C1: in any pass, if the Namespace create fails with an error other than
\* AlreadyExists, the pass ends with that error and no create for ResourceQuota,
\* NetworkPolicy or RoleBinding is issued in that pass: a returned pass whose
\* Namespace create failed has that error as its error and no other outcome,
\* and a pass that has gone beyond the Namespace create had it succeed.
C1_NamespaceFailureAborts ==
    /\ \A k \in Keys :
         Failed(lastPass[k].results["Namespace"]) =>
           /\ lastPass[k].err = lastPass[k].results["Namespace"]
           /\ \A kind \in KindSet \ {"Namespace"} : lastPass[k].results[kind] = "none"
    /\ \A w \in Workers :
         pass[w].pc \notin {"idle", "Namespace"} =>
           Succeeded(pass[w].results["Namespace"])

\* C1 witness: a pass has returned whose Namespace create failed.
C1_Witness ==
    \E k \in Keys : lastPass[k].results["Namespace"] \in FaultCauses

\* The outcome of the create call that worker w makes in this step.
StepOutcome(w, kind) ==
    IF pass'[w].pc = "idle" THEN lastPass'[pass[w].key].results[kind]
    ELSE pass'[w].results[kind]

\* C2: for each of the four kinds, when the create call reports AlreadyExists
\* the pass treats the kind as successful and continues (to the next kind, or
\* to a return without error and without a rate-limited re-add), and the store
\* is left exactly as it was.
C2_AlreadyExistsIsSuccess ==
    [][\A w \in Workers : \A i \in 1 .. Len(Kinds) :
         (pass[w].pc = Kinds[i] /\ pass'[w] # pass[w]
            /\ StepOutcome(w, Kinds[i]) = "AlreadyExists") =>
           /\ store' = store
           /\ IF i < Len(Kinds)
              THEN pass'[w].pc = Kinds[i + 1] /\ pass'[w].key = pass[w].key
              ELSE /\ pass'[w].pc = "idle"
                   /\ lastPass'[pass[w].key].err = "none"
                   /\ waiting' = waiting]_vars

\* C2 witness: a pass has met an existing Namespace whose labels are not the
\* ones the operator writes, reported AlreadyExists for it, and the Namespace
\* still carries its own labels.
C2_Witness ==
    \E k \in Keys :
      /\ lastPass[k].results["Namespace"] = "AlreadyExists"
      /\ lastPass[k].results["RoleBinding"] = "AlreadyExists"
      /\ \E o \in store : o.kind = "Namespace" /\ o.name = k
                          /\ o.fields.labels # OperatorLabels

\* C3: idempotence. Once a pass for a key has returned without error, and the
\* key's namespace has not been deleted, the store holds exactly one Namespace,
\* ResourceQuota, NetworkPolicy and RoleBinding for the key; a further pass
\* changes nothing in the store, and if it meets no fault all four of its
\* results are AlreadyExists.
C3_Idempotent ==
    [][\A k \in Keys :
         (LastPassSucceeded(k) /\ k \notin deleted) =>
           /\ \A kind \in KindSet :
                Cardinality({o \in ObjectsOf(store, k) : o.kind = kind}) = 1
           /\ Cardinality(ObjectsOf(store, k)) = Len(Kinds)
           /\ \A w \in Workers :
                (Running(w, k) /\ pass'[w] # pass[w]) =>
                  /\ ObjectsOf(store', k) = ObjectsOf(store, k)
                  /\ (Returns(w, k) /\ faults' = faults) =>
                       \A kind \in KindSet :
                         lastPass'[k].results[kind] = "AlreadyExists"]_vars

\* C3 witness: a second pass for a tenant namespace has returned with all four
\* results AlreadyExists, the namespace never having been deleted.
C3_Witness ==
    \E k \in TenantNames :
      /\ k \notin deleted
      /\ \A kind \in KindSet : lastPass[k].results[kind] = "AlreadyExists"
      /\ Cardinality(ObjectsOf(store, k)) = Len(Kinds)

\* C9: per-key serialization and coalescing. At most one pass runs for a key;
\* the keys being processed are exactly the keys of the running passes; a key
\* is in the queue at most once and never while its pass runs, so triggers that
\* arrive during a pass leave one pending re-run (the dirty mark).
C9_PerKeySerialized ==
    /\ \A k \in Keys : Cardinality({w \in Workers : Running(w, k)}) <= 1
    /\ wq.processing = {pass[w].key : w \in {v \in Workers : pass[v].pc # "idle"}}
    /\ \A k \in Keys :
         Cardinality({i \in 1 .. Len(wq.queue) : wq.queue[i] = k}) <= 1
    /\ \A k \in wq.processing : \A i \in 1 .. Len(wq.queue) : wq.queue[i] # k
    /\ \A i \in 1 .. Len(wq.queue) : wq.queue[i] \in wq.dirty

\* C9 witness: a trigger has arrived for a key whose pass is running and is
\* held as one pending re-run, while a further trigger for the key is on its way.
C9_Witness ==
    \E k \in Keys :
      k \in wq.processing /\ k \in wq.dirty /\ k \in events

\* A quantity string of a Tenant's quota parses, or is absent.
ParsesOrAbsent(s) == s = "" \/ s \in QuantityLiterals

ValidQuota(q) == ParsesOrAbsent(q.cpu) /\ ParsesOrAbsent(q.memory)

AllApplied(t) ==
    /\ tenantStatus[t].namespaceCreated
    /\ tenantStatus[t].quotaApplied
    /\ tenantStatus[t].networkPolicyApplied
    /\ tenantStatus[t].rbacApplied

\* The controller has nothing left to do: no pass runs, nothing is queued or
\* waiting for its delay, and no event is on its way.
AtRest ==
    /\ \A w \in Workers : pass[w].pc = "idle"
    /\ wq.queue = <<>> /\ wq.dirty = {} /\ wq.processing = {}
    /\ waiting = {}
    /\ events = {}

\* C4: convergence. For a Tenant with a valid spec, once the faults have
\* stopped and the controller has come to rest with the Tenant's last pass
\* returned without error, the Tenant's status is phase=Ready with all four
\* applied flags true.
C4_ConvergesToReady ==
    \A t \in TenantObjects :
      (AtRest /\ ValidQuota(tenantSpec[t]) /\ LastPassSucceeded(t)) =>
        (tenantStatus[t].phase = "Ready" /\ AllApplied(t))

\* C5: partial-failure ledger. After a pass in which the Namespace and
\* ResourceQuota creates succeed and the NetworkPolicy create fails with a
\* transient error, the stored status has namespaceCreated and quotaApplied
\* true, networkPolicyApplied false and phase=Reconciling.
C5_PartialFailureLedger ==
    \A t \in TenantObjects :
      (/\ Succeeded(lastPass[t].results["Namespace"])
       /\ Succeeded(lastPass[t].results["ResourceQuota"])
       /\ lastPass[t].results["NetworkPolicy"] = "Timeout") =>
        /\ tenantStatus[t].namespaceCreated
        /\ tenantStatus[t].quotaApplied
        /\ ~tenantStatus[t].networkPolicyApplied
        /\ tenantStatus[t].phase = "Reconciling"

\* C6: validation short-circuit. For a Tenant whose quota.cpu or quota.memory
\* has been no quantity since the Tenant was made, no create call is issued by
\* any pass for it, and once a pass has returned its phase is Failed.
C6_ValidationShortCircuit ==
    \A t \in TenantObjects :
      (tenantGen[t] = 1 /\ ~ValidQuota(tenantSpec[t])) =>
        /\ \A w \in Workers : Running(w, t) => pass[w].results = NoResults
        /\ lastPass[t].results = NoResults
        /\ PassReturned(t) => tenantStatus[t].phase = "Failed"

\* C7: stale-status rejection. When a Tenant's generation advances while a pass
\* for its key is in flight, the status is not written from that pass and a
\* fresh pass for the key is triggered: the key is marked for a re-run.
C7_StaleStatusRejected ==
    [][\A t \in TenantObjects : \A w \in Workers :
         (Running(w, t) /\ tenantGen'[t] > tenantGen[t]) =>
           /\ tenantStatus'[t] = tenantStatus[t]
           /\ t \in wq'.dirty \cup events' \cup waiting']_vars

\* The hard limits a Tenant's quota asks for in the fields this model states:
\* pods from the Tenant when it gives one, the platform default otherwise.
ExpectedHard(q) ==
    [requestsCPU    |-> [value |-> 10, suffix |-> ""],
     requestsMemory |-> [value |-> 20, suffix |-> "Gi"],
     pods           |-> IF q.pods = 0 THEN [value |-> 100, suffix |-> ""]
                        ELSE [value |-> q.pods, suffix |-> ""]]

\* C8: the ResourceQuota made for a Tenant carries the Tenant's pods value when
\* the Tenant gives one and 100 otherwise, and the platform defaults (CPU
\* request 10, memory request 20Gi) in the fields the Tenant cannot set.
C8_QuotaFromTenant ==
    \A t \in TenantObjects :
      (tenantGen[t] = 1 /\ ValidQuota(tenantSpec[t])) =>
        \A o \in store :
          (o.kind = "ResourceQuota" /\ o.namespace = t) =>
            /\ o.fields.pods = ExpectedHard(tenantSpec[t]).pods
            /\ o.fields.requestsCPU = ExpectedHard(tenantSpec[t]).requestsCPU
            /\ o.fields.requestsMemory = ExpectedHard(tenantSpec[t]).requestsMemory

\* C10: when all four kinds of a pass end Created or AlreadyExists, the status
\* is set to phase=Ready with all four flags true and the key is not re-queued.
C10_SuccessSetsReady ==
    [][\A t \in TenantObjects : \A w \in Workers :
         (Returns(w, t) /\ lastPass'[t].err = "none") =>
           /\ tenantStatus'[t].phase = "Ready"
           /\ \A f \in {"namespaceCreated", "quotaApplied",
                        "networkPolicyApplied", "rbacApplied"} : tenantStatus'[t][f]
           /\ waiting' = waiting]_vars

\* The applied flag of each kind in a Tenant's status.
FlagOf(kind) ==
    CASE kind = "Namespace"     -> "namespaceCreated"
      [] kind = "ResourceQuota" -> "quotaApplied"
      [] kind = "NetworkPolicy" -> "networkPolicyApplied"
      [] kind = "RoleBinding"   -> "rbacApplied"

\* C11: when a pass ends with a kind failed for a transient cause, the status
\* is set to phase=Reconciling, the flag of every kind that succeeded in the
\* pass is true, the flag of every kind not attempted keeps its value, and the
\* key is re-queued for a later pass.
C11_TransientFailureReconciling ==
    [][\A t \in TenantObjects : \A w \in Workers :
         (Returns(w, t) /\ lastPass'[t].err = "Timeout") =>
           /\ tenantStatus'[t].phase = "Reconciling"
           /\ \A kind \in KindSet :
                /\ Succeeded(lastPass'[t].results[kind]) =>
                     tenantStatus'[t][FlagOf(kind)]
                /\ lastPass'[t].results[kind] = "none" =>
                     tenantStatus'[t][FlagOf(kind)] = tenantStatus[t][FlagOf(kind)]
           /\ t \in waiting']_vars

\* The smaller of two delays.
MinDelay(a, b) == IF a < b THEN a ELSE b

\* C12: the delay of a key's re-add after a failed pass is the base interval
\* after a first failure and twice the previous delay, at most the cap, after
\* each further one; a fully successful pass resets it to the base interval,
\* and so does a newer spec update of the key's Tenant.
C12_BackoffSequence ==
    [][/\ \A k \in Keys : \A w \in Workers :
            Returns(w, k) =>
              IF lastPass'[k].err = "none"
              THEN limiter'[k].delay = 0 /\ k \notin waiting' \ waiting
              ELSE /\ k \in waiting'
                   /\ limiter'[k].delay =
                        IF limiter[k].delay = 0 THEN BaseDelay
                        ELSE MinDelay(2 * limiter[k].delay, MaxDelay)
       /\ \A t \in TenantObjects :
            tenantGen'[t] > tenantGen[t] => limiter'[t].failures = 0]_vars

\* C13: when a pass fails with a cause that is not transient, the status
\* becomes phase=Failed with the applied flags unchanged and the key is not
\* re-queued: no rate-limited re-add is made for it.
C13_TerminalFailureNotRequeued ==
    [][\A t \in TenantObjects : \A w \in Workers :
         (Returns(w, t) /\ lastPass'[t].err = "Forbidden") =>
           /\ tenantStatus'[t].phase = "Failed"
           /\ \A kind \in KindSet :
                tenantStatus'[t][FlagOf(kind)] = tenantStatus[t][FlagOf(kind)]
           /\ waiting' = waiting]_vars

\* C14: a status write follows every pass, so between passes the stored status
\* describes the last pass that returned: phase Ready exactly when it returned
\* without error, and the flag of every kind that succeeded in it is true.
C14_StatusFollowsEveryPass ==
    \A t \in TenantObjects :
      PassReturned(t) =>
        /\ tenantStatus[t].phase \in {"Ready", "Reconciling", "Failed"}
        /\ (tenantStatus[t].phase = "Ready") = (lastPass[t].err = "none")
        /\ \A kind \in KindSet :
             Succeeded(lastPass[t].results[kind]) => tenantStatus[t][FlagOf(kind)]

\* C15: a delete notification makes the controller issue no create for the
\* key: a namespace the teardown has deleted comes back only when it is
\* applied again from outside, never by a pass.
C15_DeletedStaysDeleted ==
    [][\A k \in Keys :
         (k \in deleted /\ ~NamespaceExists(store, k) /\ NamespaceExists(store', k))
           => external' > external]_vars

\* C16: no pass, and so no ResourceQuota, NetworkPolicy or RoleBinding create,
\* is ever made for a key that is not a Tenant of the store, such as a
\* Namespace that is no tenant.
C16_OnlyTenantKeys ==
    \A k \in Keys \ TenantObjects :
      /\ \A w \in Workers : ~Running(w, k)
      /\ ~PassReturned(k)
      /\ \A o \in store : o.namespace # k

\* C17: whenever the controller is at rest after a fully successful pass for a
\* Tenant, the Tenant's ResourceQuota holds the values of the Tenant's current
\* spec (also after a spec update), under its unchanged name.
C17_ChildrenFollowSpec ==
    \A t \in TenantObjects :
      (AtRest /\ LastPassSucceeded(t) /\ ValidQuota(tenantSpec[t])) =>
        \A o \in store :
          (o.kind = "ResourceQuota" /\ o.namespace = t) =>
            o.name = "tenant-quota" /\ o.fields.pods = ExpectedHard(tenantSpec[t]).pods

\* The outcomes of worker w's pass after this step.
StepResults(w) ==
    IF pass'[w].pc = "idle" THEN lastPass'[pass[w].key].results ELSE pass'[w].results

\* C18: in every pass each kind is created at most once, so a pass makes at
\* most four create calls, and it makes no update or delete: every step of a
\* pass makes one create, of a kind the pass has not created yet, and the store
\* changes at most by gaining the object of that create.
C18_AtMostOneCreatePerKind ==
    [][\A w \in Workers :
         (pass[w].pc # "idle" /\ pass'[w] # pass[w]) =>
           /\ pass[w].results[pass[w].pc] = "none"
           /\ StepResults(w)[pass[w].pc] # "none"
           /\ \A kind \in KindSet \ {pass[w].pc} :
                StepResults(w)[kind] = pass[w].results[kind]
           /\ store \subseteq store'
           /\ \A o \in store' \ store :
                o.kind = pass[w].pc /\ o \in ObjectsOf(store', pass[w].key)
           /\ Cardinality(store' \ store) <= 1]_vars

\* C18 witness: a pass has returned after four create calls, one of which
\* created its object.
C18_Witness ==
    \E k \in Keys :
      /\ \A kind \in KindSet : lastPass[k].results[kind] # "none"
      /\ \E kind \in KindSet : lastPass[k].results[kind] = "Created"

\* The outcomes r are those of creates made in the fixed order up to the n-th
\* kind, every one before the n-th having succeeded.
InOrderUpTo(r, n) ==
    /\ \A i \in 1 .. Len(Kinds) :
         /\ i < n => Succeeded(r[Kinds[i]])
         /\ i > n => r[Kinds[i]] = "none"
    /\ n > 0 => r[Kinds[n]] # "none"

\* The place of a running pass's next create in the fixed order.
PlaceOf(pc) == CHOOSE i \in 1 .. Len(Kinds) : Kinds[i] = pc

\* C19: within a pass the creates are made in the order Namespace,
\* ResourceQuota, NetworkPolicy, RoleBinding; the pass stops at the first create
\* that fails with an error other than AlreadyExists and returns that error, no
\* later kind being attempted; and it returns without error exactly when all
\* four creates ended Created or AlreadyExists.
C19_FixedOrderFirstFailure ==
    /\ \A w \in Workers :
         pass[w].pc # "idle" =>
           /\ pass[w].pc \in KindSet
           /\ InOrderUpTo(pass[w].results, PlaceOf(pass[w].pc) - 1)
           /\ PlaceOf(pass[w].pc) > 1 =>
                Succeeded(pass[w].results[Kinds[PlaceOf(pass[w].pc) - 1]])
    /\ \A k \in Keys :
         PassReturned(k) =>
           /\ \E n \in 1 .. Len(Kinds) :
                /\ InOrderUpTo(lastPass[k].results, n)
                /\ lastPass[k].err =
                     IF Succeeded(lastPass[k].results[Kinds[n]]) THEN "none"
                     ELSE lastPass[k].results[Kinds[n]]
                /\ Succeeded(lastPass[k].results[Kinds[n]]) => n = Len(Kinds)
           /\ (lastPass[k].err = "none") =
                (\A kind \in KindSet : Succeeded(lastPass[k].results[kind]))

\* C19 witness: a pass has returned the error of its NetworkPolicy create, the
\* two creates before it having succeeded and the RoleBinding not attempted.
C19_Witness ==
    \E k \in Keys :
      /\ Succeeded(lastPass[k].results["Namespace"])
      /\ Succeeded(lastPass[k].results["ResourceQuota"])
      /\ Failed(lastPass[k].results["NetworkPolicy"])
      /\ lastPass[k].results["RoleBinding"] = "none"
      /\ lastPass[k].err = lastPass[k].results["NetworkPolicy"]

\* C20: quiescence. With finitely many triggers from outside and finitely many
\* faults the controller comes to rest for good, with an empty queue and no
\* running pass, although its own Namespace create produces a Namespace event:
\* a step of a pass produces an event only by creating the Namespace, so the
\* pass that event causes, finding the Namespace present, produces none.
C20_Quiescence ==
    /\ <>[]AtRest
    /\ [][\A w \in Workers :
            (pass[w].pc # "idle" /\ pass'[w] # pass[w] /\ events' # events) =>
              /\ ~NamespaceExists(store, pass[w].key)
              /\ NamespaceExists(store', pass[w].key)
              /\ events' = events \cup {pass[w].key}]_vars

\* C20 witness: the controller is at rest after the pass that its own
\* Namespace create caused, which found all four objects present.
C20_Witness ==
    /\ AtRest
    /\ \E k \in Keys :
         /\ NamespaceObject(k) \in store
         /\ \A kind \in KindSet : lastPass[k].results[kind] = "AlreadyExists"

\* The kinds Reconcile creates inside the tenant's namespace.
ChildKinds == KindSet \ {"Namespace"}

\* C21: over any sequence of passes and create outcomes, for a key whose
\* namespace has not been deleted from outside: every ResourceQuota,
\* NetworkPolicy and RoleBinding in the key's namespace is the one Reconcile
\* names for the key (tenant-quota, default-deny-ingress, <key>-developers),
\* the namespace holds at most one object of each of the three kinds, and if
\* it holds any of them the Namespace exists.
C21_ChildrenInsideOneEach ==
    \A k \in Keys \ deleted :
      /\ \A o \in store :
           o.namespace = k =>
             /\ o.kind \in ChildKinds
             /\ o.name = Desired(o.kind, k).name
             /\ NamespaceExists(store, k)
      /\ \A kind \in ChildKinds :
           Cardinality({o \in store : o.namespace = k /\ o.kind = kind}) <= 1

\* C21 witness: passes have created all three children in a tenant namespace
\* and in another namespace, neither namespace having been deleted.
C21_Witness ==
    /\ deleted = {}
    /\ \E k \in TenantNames : \E j \in Keys \ {k} :
         /\ \A kind \in ChildKinds :
              lastPass[k].results[kind] = "Created" /\ Desired(kind, k) \in store
         /\ \A kind \in ChildKinds : Desired(kind, j) \in store

\* The key of the pass that worker w starts or carries on in this step.
SteppingKey(w) == IF pass[w].pc = "idle" THEN pass'[w].key ELSE pass[w].key

\* The queue without the entries of key k.
QueueWithout(q, k) == SelectSeq(q, LAMBDA x : x # k)

\* C22: key isolation. Every step of a pass for key k adds to the store only
\* the Namespace named k or an object inside namespace k, and leaves alone the
\* objects, the last results, the status, the queue marks and position, the
\* pending events and re-adds, and the failure count and delay of every other
\* key, however the passes of the keys follow each other.
C22_KeyIsolation ==
    [][\A w \in Workers :
         pass'[w] # pass[w] =>
           /\ \A o \in store' \ store : o \in ObjectsOf(store', SteppingKey(w))
           /\ \A j \in Keys \ {SteppingKey(w)} :
                /\ ObjectsOf(store', j) = ObjectsOf(store, j)
                /\ lastPass'[j] = lastPass[j]
                /\ limiter'[j] = limiter[j]
                /\ (j \in waiting') = (j \in waiting)
                /\ (j \in events') = (j \in events)
                /\ (j \in wq'.dirty) = (j \in wq.dirty)
                /\ (j \in wq'.processing) = (j \in wq.processing)
           /\ QueueWithout(wq'.queue, SteppingKey(w))
                = QueueWithout(wq.queue, SteppingKey(w))
           /\ \A t \in TenantObjects \ {SteppingKey(w)} :
                tenantStatus'[t] = tenantStatus[t]]_vars

\* C22 witness: a pass for a tenant key is past its Namespace create while
\* another key, whose own pass failed, has children in the store, a failure
\* count and a pending re-add.
C22_Witness ==
    \E w \in Workers : \E k \in TenantNames : \E j \in Keys \ {k} :
      /\ Running(w, k) /\ pass[w].pc # "Namespace"
      /\ limiter[j].failures > 0
      /\ j \in waiting \/ j \in wq.dirty
      /\ \E o \in store : o.namespace = j

====
